---- MODULE Spec2Model ----
(***************************************************************************)
(* Model of langchain-agent/agent.py: the EnhancedTrainBookingAgent chat   *)
(* loop (chat), intent extraction (_extract_intent), the train ambiguity   *)
(* check (_check_train_ambiguity) and the dispatch of backend requests     *)
(* (_execute_action and the _xxx_ticket / _xxx_trains helpers).            *)
(*                                                                         *)
(* Python strings that are formatted, joined or stripped are sequences of  *)
(* tokens; a single blank " " is a token of its own, so that join and      *)
(* strip are computed the way Python computes them.  The understanding     *)
(* oracle (the LLM chain) and the HTTP backend are nondeterministic: every *)
(* call draws its answer from a small set.                                 *)
(***************************************************************************)
EXTENDS Integers, Sequences, FiniteSets, TLC

VARIABLES
    pc,               \* position of chat(): "input", "extract", "execute", "except", "exited"
    eof,              \* stdin is exhausted: input() raises EOFError from now on
    lines_read,       \* number of lines input() has returned so far
    memory,           \* self.memory.chat_memory.messages
    current_user_id,  \* self.current_user_id
    user_input,       \* the utterance of the turn in progress (its line number), 0 when none
    oracle,           \* what intent_chain.invoke answered in this turn
    intent_response,  \* the IntentResponse _extract_intent returned (mutated by the ambiguity check)
    result,           \* the string _execute_action returned
    requests,         \* the HTTP exchanges of this turn, in order
    output,           \* the last thing the loop printed
    seen_user_id      \* history: the most recent non-empty user_id the oracle returned

vars == <<pc, eof, lines_read, memory, current_user_id, user_input, oracle,
          intent_response, result, requests, output, seen_user_id>>

(***************************************************************************)
(* Bounds of the model.                                                    *)
(***************************************************************************)
\* lines the input stream may hold before it ends (Spec)
MaxLines == 2
\* lines the input stream may hold in the conversation-memory specification
MaxMemLines == 11

(***************************************************************************)
(* Program constants.                                                      *)
(***************************************************************************)
\* ConversationBufferWindowMemory(k=10)
k == 10
\* matching_trains[:5]
MaxOptions == 5
default_user_id == "user_001"

\* Python's None
None == "<None>"
\* the empty dict {}
EmptyDict == [x \in {} |-> ""]

SlotNames == {"train_id", "user_id", "from_city", "to_city", "date"}

\* Python truthiness of an Optional[str]
Truthy(v) == v # None /\ v # ""

\* dict.get(key, default)
Get(params, key, default) == IF key \in DOMAIN params THEN params[key] ELSE default

\* params[key] = value
SetItem(params, key, value) ==
    [x \in DOMAIN params \cup {key} |-> IF x = key THEN value ELSE params[x]]

(***************************************************************************)
(* Strings as token sequences.                                             *)
(***************************************************************************)
SP == " "

\* sep.join(parts), parts a sequence of token sequences
RECURSIVE Join(_)
Join(parts) ==
    IF Len(parts) = 0 THEN <<>>
    ELSE IF Len(parts) = 1 THEN parts[1]
    ELSE parts[1] \o <<SP>> \o Join(Tail(parts))

RECURSIVE LStrip(_)
LStrip(s) == IF Len(s) > 0 /\ s[1] = SP THEN LStrip(Tail(s)) ELSE s

RECURSIVE RStrip(_)
RStrip(s) ==
    IF Len(s) > 0 /\ s[Len(s)] = SP THEN RStrip(SubSeq(s, 1, Len(s) - 1)) ELSE s

\* str.strip()
Strip(s) == RStrip(LStrip(s))

\* f"from {from_city}" and its siblings
Phrase(word, value) == <<word, SP, value>>

\* s[:n]
Take(s, n) == SubSeq(s, 1, IF Len(s) < n THEN Len(s) ELSE n)

(***************************************************************************)
(* Data.                                                                   *)
(***************************************************************************)
Intents == {"query_ticket", "book_ticket", "cancel_ticket", "list_trains",
            "search_trains", "my_tickets", "unknown"}

IntentResponse(intent, parameters, missing_parameters, clarify_question) ==
    [intent |-> intent, parameters |-> parameters,
     missing_parameters |-> missing_parameters, clarify_question |-> clarify_question]

\* Train.from_dict
Train(id) ==
    [id |-> id, from_city |-> "Beijing", to_city |-> "Shanghai",
     date |-> "2025-06-01", departure_time |-> "08:00"]

\* a string the agent returns: what it says (kind), the line of agent.py that
\* built it (site) and the values formatted into it
Response(kind, site) ==
    [kind |-> kind, site |-> site, criteria |-> <<>>, options |-> <<>>,
     action |-> "", train_id |-> "", user_id |-> "", text |-> ""]

NoResult == Response("", "")
NoIntent == IntentResponse("", EmptyDict, <<>>, "")
\* intent_chain.invoke has not been called in this turn
NoOracle == [called |-> FALSE, ok |-> FALSE, value |-> NoIntent]

\* one HTTP exchange: the request sent and the answer received
\* (status 0: requests.get raised)
Exchange(op, id, user, params, answer) ==
    [op |-> op, id |-> id, user_id |-> user, params |-> params,
     status |-> answer.status, body |-> answer.body]

(***************************************************************************)
(* The backend: every request is answered from a small set of answers.     *)
(* status 0 stands for requests.get raising (no connection).               *)
(***************************************************************************)
Answer(status, body) == [status |-> status, body |-> body]

TrainIds == <<"G100", "D200", "K300", "G101", "D201", "K301">>

\* what GET /tickets and GET /list may hold: the ids of the trains, in catalog order
Catalogs == {<<>>, <<"G100">>, <<"D200">>, <<"G100", "D200">>, TrainIds}

TicketsAnswers ==
    {Answer(200, b) : b \in Catalogs} \cup {Answer(s, <<>>) : s \in {500, 0}}

QueryAnswers == {Answer(s, <<>>) : s \in {200, 404, 500, 0}}

CommandAnswers == {Answer(s, <<>>) : s \in {200, 404, 409, 400, 500, 0}}

UserTicketsAnswers ==
    {Answer(200, b) : b \in {<<>>, <<"G100">>}} \cup {Answer(s, <<>>) : s \in {500, 0}}

DetailAnswers == {Answer(s, <<>>) : s \in {200, 404, 0}}

\* the query parameters of a request that has none
NoParams == EmptyDict

(***************************************************************************)
(* The understanding oracle: intent_chain.invoke either raises or returns  *)
(* an IntentResponse that passed the pydantic parser.  The parser accepts  *)
(* any subset of the keys and null values (Dict[str, Optional[str]]).      *)
(***************************************************************************)
FullParams ==
    [train_id : {"", "G100"}, user_id : {"", "4343", "1234"},
     from_city : {"", "Beijing"}, to_city : {"", "Shanghai"},
     date : {"", "2025-06-01"}]

PartialParams ==
    {EmptyDict,
     [x \in SlotNames |-> None],
     [x \in {"from_city", "user_id"} |-> IF x = "from_city" THEN "Beijing" ELSE None]}

ClarifyQuestions == {"", "Which user?"}

OracleAnswers ==
    {[called |-> TRUE, ok |-> TRUE, value |-> IntentResponse(i, p, <<>>, q)] :
        i \in Intents, p \in FullParams \cup PartialParams, q \in ClarifyQuestions}
    \cup {[called |-> TRUE, ok |-> FALSE, value |-> NoIntent]}

\* the oracle answers of the conversation-memory specification
MemOracleAnswers ==
    {[called |-> TRUE, ok |-> TRUE, value |-> IntentResponse(i, p, <<>>, "")] :
        i \in {"list_trains", "book_ticket", "unknown"},
        p \in {[train_id |-> t, user_id |-> "", from_city |-> "", to_city |-> "",
                date |-> ""] : t \in {"", "G100"}}}
    \cup {[called |-> TRUE, ok |-> FALSE, value |-> NoIntent]}

(***************************************************************************)
(* _extract_intent                                                         *)
(***************************************************************************)
\* the except branch: the fallback IntentResponse
FallbackIntent ==
    IntentResponse("unknown", EmptyDict, <<>>,
                   "I didn't understand your request. Could you please rephrase it?")

\* mutant: the except branch returns a fallback that asks nothing
ExtractIntentSilentFallback(answer, cur) ==
    IF answer.ok
    THEN [intent_response |-> answer.value,
          current_user_id |->
              IF Truthy(Get(answer.value.parameters, "user_id", None))
              THEN answer.value.parameters["user_id"]
              ELSE cur]
    ELSE [intent_response |-> IntentResponse("unknown", EmptyDict, <<>>, ""),
          current_user_id |-> cur]

\* returns the IntentResponse and the new self.current_user_id
ExtractIntent(answer, cur) ==
    IF answer.ok
    THEN [intent_response |-> answer.value,
          current_user_id |->
              IF Truthy(Get(answer.value.parameters, "user_id", None))
              THEN answer.value.parameters["user_id"]
              ELSE cur]
    ELSE [intent_response |-> FallbackIntent, current_user_id |-> cur]

(***************************************************************************)
(* _search_trains_internal: the set of (trains, exchange) it may return    *)
(***************************************************************************)
SearchParams(from_city, to_city, date) ==
    [x \in {y \in {"from", "to", "date"} :
               Truthy(CASE y = "from" -> from_city [] y = "to" -> to_city
                        [] OTHER -> date)}
        |-> CASE x = "from" -> from_city [] x = "to" -> to_city [] OTHER -> date]

SearchTrainsInternal(from_city, to_city, date) ==
    {[trains |-> IF a.status = 200
                 THEN [i \in 1..Len(a.body) |-> Train(a.body[i])]
                 ELSE <<>>,
      requests |-> <<Exchange("tickets", "", "", SearchParams(from_city, to_city, date), a)>>]
        : a \in TicketsAnswers}

\* the criteria_text list of _check_train_ambiguity and _search_trains, joined
CriteriaStr(from_city, to_city, date) ==
    LET criteria_text ==
            (IF Truthy(from_city) THEN <<Phrase("from", from_city)>> ELSE <<>>)
         \o (IF Truthy(to_city) THEN <<Phrase("to", to_city)>> ELSE <<>>)
         \o (IF Truthy(date) THEN <<Phrase("on", date)>> ELSE <<>>)
    IN  IF Len(criteria_text) > 0 THEN Join(criteria_text) ELSE <<"matching your criteria">>

\* the criteria_str of the book branch of _execute_action
BookCriteriaStr(from_city, to_city, date) ==
    Strip(Join(<<IF Truthy(from_city) THEN Phrase("from", from_city) ELSE <<>>,
                 IF Truthy(to_city) THEN Phrase("to", to_city) ELSE <<>>,
                 IF Truthy(date) THEN Phrase("on", date) ELSE <<>>>>))

\* intent.replace("_ticket", "").replace("_", " ")
ActionWord(intent) ==
    CASE intent = "book_ticket" -> "book"
      [] intent = "cancel_ticket" -> "cancel"
      [] intent = "query_ticket" -> "query"
      [] OTHER -> intent

\* the "I found multiple trains ..." question
MultipleTrains(matching_trains, from_city, to_city, date, action_word, site) ==
    [Response("multiple_trains", site) EXCEPT
        !.criteria = CriteriaStr(from_city, to_city, date),
        !.options = Take(matching_trains, MaxOptions),
        !.action = action_word,
        !.train_id = matching_trains[1].id]

(***************************************************************************)
(* _check_train_ambiguity: the set of outcomes, one per answer of the      *)
(* backend.  question is NoQuestion or the clarification; intent_response is the *)
(* IntentResponse as the check leaves it (train_id auto-filled).           *)
(***************************************************************************)
\* return None
NoQuestion == NoResult

CheckOutcome(question, ir, reqs) ==
    [question |-> question, intent_response |-> ir, requests |-> reqs]

\* mutant: the auto-fill branch comes first and takes the first of any matches
CheckTrainAmbiguityFillsFirst(ir) ==
    LET params == ir.parameters
        train_id == Get(params, "train_id", "")
        from_city == Get(params, "from_city", "")
        to_city == Get(params, "to_city", "")
        date == Get(params, "date", "")
    IN  IF ir.intent \notin {"book_ticket", "cancel_ticket", "query_ticket"}
        THEN {CheckOutcome(NoQuestion, ir, <<>>)}
        ELSE IF Truthy(from_city) \/ Truthy(to_city)
        THEN {IF Len(s.trains) >= 1 /\ ~Truthy(train_id)
              THEN CheckOutcome(
                       NoQuestion,
                       [ir EXCEPT !.parameters = SetItem(params, "train_id", s.trains[1].id)],
                       s.requests)
              ELSE IF Len(s.trains) > 1
              THEN CheckOutcome(
                       MultipleTrains(s.trains, from_city, to_city, date,
                                      ActionWord(ir.intent), "check"),
                       ir, s.requests)
              ELSE CheckOutcome(NoQuestion, ir, s.requests)
                 : s \in SearchTrainsInternal(from_city, to_city, date)}
        ELSE {CheckOutcome(NoQuestion, ir, <<>>)}

\* mutant: the check is skipped when a train_id was extracted
CheckTrainAmbiguitySkipsExplicitId(ir) ==
    LET params == ir.parameters
        train_id == Get(params, "train_id", "")
        from_city == Get(params, "from_city", "")
        to_city == Get(params, "to_city", "")
        date == Get(params, "date", "")
    IN  IF ir.intent \notin {"book_ticket", "cancel_ticket", "query_ticket"}
        THEN {CheckOutcome(NoQuestion, ir, <<>>)}
        ELSE IF (Truthy(from_city) \/ Truthy(to_city)) /\ ~Truthy(train_id)
        THEN {IF Len(s.trains) > 1
              THEN CheckOutcome(
                       MultipleTrains(s.trains, from_city, to_city, date,
                                      ActionWord(ir.intent), "check"),
                       ir, s.requests)
              ELSE IF Len(s.trains) = 1
              THEN CheckOutcome(
                       NoQuestion,
                       [ir EXCEPT !.parameters = SetItem(params, "train_id", s.trains[1].id)],
                       s.requests)
              ELSE CheckOutcome(NoQuestion, ir, s.requests)
                 : s \in SearchTrainsInternal(from_city, to_city, date)}
        ELSE {CheckOutcome(NoQuestion, ir, <<>>)}

CheckTrainAmbiguity(ir) ==
    LET params == ir.parameters
        train_id == Get(params, "train_id", "")
        from_city == Get(params, "from_city", "")
        to_city == Get(params, "to_city", "")
        date == Get(params, "date", "")
    IN  IF ir.intent \notin {"book_ticket", "cancel_ticket", "query_ticket"}
        THEN {CheckOutcome(NoQuestion, ir, <<>>)}
        ELSE IF Truthy(from_city) \/ Truthy(to_city)
        THEN {IF Len(s.trains) > 1
              THEN CheckOutcome(
                       MultipleTrains(s.trains, from_city, to_city, date,
                                      ActionWord(ir.intent), "check"),
                       ir, s.requests)
              ELSE IF Len(s.trains) = 1 /\ ~Truthy(train_id)
              THEN CheckOutcome(
                       NoQuestion,
                       [ir EXCEPT !.parameters = SetItem(params, "train_id", s.trains[1].id)],
                       s.requests)
              ELSE CheckOutcome(NoQuestion, ir, s.requests)
                 : s \in SearchTrainsInternal(from_city, to_city, date)}
        ELSE {CheckOutcome(NoQuestion, ir, <<>>)}

(***************************************************************************)
(* The server API methods: each returns the set of (result, requests) it   *)
(* may produce.                                                            *)
(***************************************************************************)
Outcome(res, reqs) == [result |-> res, requests |-> reqs]

\* mutant: user_id or self.default_user_id
EffectiveUserIdIgnoresCurrent(user_id, cur) ==
    IF Truthy(user_id) THEN user_id ELSE default_user_id

\* user_id or self.current_user_id or self.default_user_id
EffectiveUserId(user_id, cur) ==
    IF Truthy(user_id) THEN user_id
    ELSE IF Truthy(cur) THEN cur
    ELSE default_user_id

\* _query_train
QueryTrain(train_id) ==
    {Outcome(
        CASE a.status = 0 -> [Response("error_querying", "query") EXCEPT !.train_id = train_id]
          [] a.status = 404 -> [Response("train_not_found", "query") EXCEPT !.train_id = train_id]
          [] a.status = 200 -> [Response("train_info", "query") EXCEPT !.train_id = train_id]
          \* response.status_text raises AttributeError, caught by the except
          [] OTHER -> [Response("error_querying", "query") EXCEPT !.train_id = train_id],
        <<Exchange("query", train_id, "", NoParams, a)>>)
        : a \in QueryAnswers}

\* mutant: a booking the backend did not accept is sent a second time
BookTicketRetries(train_id, user_id, cur) ==
    LET effective_user_id == EffectiveUserId(user_id, cur)
        R(kind) == [Response(kind, "book") EXCEPT !.train_id = train_id]
        Sends(a) == Exchange("book", train_id, effective_user_id, NoParams, a)
        Mapped(a) ==
            CASE a.status = 0 -> R("error_booking")
              [] a.status = 404 -> R("train_not_found")
              [] a.status = 409 -> R("no_tickets_available")
              [] a.status = 400 -> R("invalid_request")
              [] a.status = 200 -> [R("booked") EXCEPT !.user_id = effective_user_id]
              [] OTHER -> R("error_booking")
    IN  {Outcome(Mapped(a), <<Sends(a)>>) : a \in {b \in CommandAnswers : b.status = 200}}
        \cup {Outcome(Mapped(a2), <<Sends(a1), Sends(a2)>>)
                 : a1 \in {b \in CommandAnswers : b.status # 200}, a2 \in CommandAnswers}

\* _book_ticket
BookTicket(train_id, user_id, cur) ==
    LET effective_user_id == EffectiveUserId(user_id, cur)
        R(kind) == [Response(kind, "book") EXCEPT !.train_id = train_id]
    IN  {Outcome(
            CASE a.status = 0 -> R("error_booking")
              [] a.status = 404 -> R("train_not_found")
              [] a.status = 409 -> R("no_tickets_available")
              [] a.status = 400 -> R("invalid_request")
              [] a.status = 200 -> [R("booked") EXCEPT !.user_id = effective_user_id]
              [] OTHER -> R("error_booking"),
            <<Exchange("book", train_id, effective_user_id, NoParams, a)>>)
            : a \in CommandAnswers}

\* _cancel_ticket
CancelTicket(train_id, user_id, cur) ==
    LET effective_user_id == EffectiveUserId(user_id, cur)
        R(kind) == [Response(kind, "cancel") EXCEPT !.train_id = train_id]
    IN  {Outcome(
            CASE a.status = 0 -> R("error_canceling")
              [] a.status = 404 -> R("train_not_found")
              [] a.status = 409 -> R("no_tickets_to_cancel")
              [] a.status = 200 -> R("canceled")
              [] OTHER -> R("error_canceling"),
            <<Exchange("cancel", train_id, effective_user_id, NoParams, a)>>)
            : a \in CommandAnswers}

\* _list_trains
ListTrains ==
    {Outcome(
        CASE a.status = 0 -> Response("error_fetching_list", "list")
          [] a.status # 200 -> Response("error_fetching_list", "list")
          [] Len(a.body) = 0 -> Response("no_trains_available", "list")
          [] OTHER -> [Response("available_trains", "list") EXCEPT
                          !.options = [i \in 1..Len(a.body) |-> Train(a.body[i])]],
        <<Exchange("list", "", "", NoParams, a)>>)
        : a \in TicketsAnswers}

\* _search_trains
SearchTrains(from_city, to_city, date) ==
    {Outcome(
        IF Len(s.trains) = 0
        THEN [Response("no_trains_found", "search") EXCEPT
                 !.criteria = CriteriaStr(from_city, to_city, date)]
        ELSE [Response("search_results", "search") EXCEPT !.options = s.trains],
        s.requests)
        : s \in SearchTrainsInternal(from_city, to_city, date)}

\* _get_train_details, for every booking in turn: the sets of request sequences
RECURSIVE TrainDetails(_)
TrainDetails(bookings) ==
    IF Len(bookings) = 0 THEN {<<>>}
    ELSE {<<Exchange("query", bookings[1], "", NoParams, a)>> \o rest :
             a \in DetailAnswers, rest \in TrainDetails(Tail(bookings))}

\* _get_user_tickets
GetUserTickets(user_id, cur) ==
    LET effective_user_id == EffectiveUserId(user_id, cur)
        R(kind) == [Response(kind, "my_tickets") EXCEPT !.user_id = effective_user_id]
        First(a) == <<Exchange("user_tickets", "", effective_user_id, NoParams, a)>>
    IN  UNION {
            IF a.status # 200 THEN {Outcome(R("error_fetching_tickets"), First(a))}
            ELSE IF Len(a.body) = 0 THEN {Outcome(R("no_booked_tickets"), First(a))}
            ELSE {Outcome([R("booked_tickets") EXCEPT !.options = a.body], First(a) \o d)
                     : d \in TrainDetails(a.body)}
            : a \in UserTicketsAnswers}

(***************************************************************************)
(* _execute_action: the set of (result, requests, intent_response) it may  *)
(* produce.                                                                *)
(***************************************************************************)
Executed(res, reqs, ir) == [result |-> res, requests |-> reqs, intent_response |-> ir]

\* lines 437-441
DispatchQuery(ir) ==
    LET train_id == Get(ir.parameters, "train_id", "")
    IN  IF ~Truthy(train_id)
        THEN {Outcome(Response("please_specify", "query"), <<>>)}
        ELSE QueryTrain(train_id)

\* lines 443-488
DispatchBook(ir, cur) ==
    LET params == ir.parameters
        train_id == Get(params, "train_id", "")
        user_id == Get(params, "user_id", "")
        from_city == Get(params, "from_city", "")
        to_city == Get(params, "to_city", "")
        date == Get(params, "date", "")
    IN  IF ~Truthy(train_id) /\ (Truthy(from_city) \/ Truthy(to_city))
        THEN UNION {
                IF Len(s.trains) > 1
                THEN {Outcome(MultipleTrains(s.trains, from_city, to_city, date,
                                             "book", "book"),
                              s.requests)}
                ELSE IF Len(s.trains) = 1
                THEN {Outcome(o.result, s.requests \o o.requests)
                         : o \in BookTicket(s.trains[1].id, user_id, cur)}
                ELSE {Outcome([Response("no_trains_found", "book") EXCEPT
                                  !.criteria = BookCriteriaStr(from_city, to_city, date)],
                              s.requests)}
                : s \in SearchTrainsInternal(from_city, to_city, date)}
        ELSE IF ~Truthy(train_id)
        THEN {Outcome(Response("please_specify", "book"), <<>>)}
        ELSE BookTicket(train_id, user_id, cur)

\* mutant: the cancel branch without its "if not train_id" return
DispatchCancelUnchecked(ir, cur) ==
    CancelTicket(Get(ir.parameters, "train_id", ""), Get(ir.parameters, "user_id", ""), cur)

\* lines 490-495
DispatchCancel(ir, cur) ==
    LET train_id == Get(ir.parameters, "train_id", "")
        user_id == Get(ir.parameters, "user_id", "")
    IN  IF ~Truthy(train_id)
        THEN {Outcome(Response("please_specify", "cancel"), <<>>)}
        ELSE CancelTicket(train_id, user_id, cur)

\* the "Execute based on intent" part, lines 434-511
Dispatch(ir, cur) ==
    LET params == ir.parameters
    IN  CASE ir.intent = "query_ticket" -> DispatchQuery(ir)
          [] ir.intent = "book_ticket" -> DispatchBook(ir, cur)
          [] ir.intent = "cancel_ticket" -> DispatchCancel(ir, cur)
          [] ir.intent = "list_trains" -> ListTrains
          [] ir.intent = "search_trains" ->
                SearchTrains(Get(params, "from_city", ""), Get(params, "to_city", ""),
                             Get(params, "date", ""))
          [] ir.intent = "my_tickets" -> GetUserTickets(Get(params, "user_id", ""), cur)
          [] OTHER -> {Outcome(Response("dont_understand", "unknown"), <<>>)}

\* mutant: the clarify_question is returned whenever there is one
ReturnsClarifyAlways(ir) == Truthy(ir.clarify_question)

\* lines 422-432: the extractor's clarify_question is returned
ReturnsClarify(ir) ==
    /\ Truthy(ir.clarify_question)
    /\ ~ (/\ ir.intent \in {"book_ticket", "cancel_ticket"}
          /\ \/ Truthy(Get(ir.parameters, "from_city", None))
             \/ Truthy(Get(ir.parameters, "to_city", None)))

\* mutant: the extractor's clarify_question is looked at before the ambiguity question
ExecuteActionClarifyFirst(ir0, cur) ==
    UNION {
        IF ReturnsClarify(chk.intent_response)
        THEN {Executed([Response("clarify", "clarify") EXCEPT
                           !.text = chk.intent_response.clarify_question],
                       chk.requests, chk.intent_response)}
        ELSE IF chk.question.kind # ""
        THEN {Executed(chk.question, chk.requests, chk.intent_response)}
        ELSE {Executed(o.result, chk.requests \o o.requests, chk.intent_response)
                 : o \in Dispatch(chk.intent_response, cur)}
        : chk \in CheckTrainAmbiguity(ir0)}

ExecuteAction(ir0, cur) ==
    UNION {
        IF chk.question.kind # ""
        THEN {Executed(chk.question, chk.requests, chk.intent_response)}
        ELSE IF ReturnsClarify(chk.intent_response)
        THEN {Executed([Response("clarify", "clarify") EXCEPT
                           !.text = chk.intent_response.clarify_question],
                       chk.requests, chk.intent_response)}
        ELSE {Executed(o.result, chk.requests \o o.requests, chk.intent_response)
                 : o \in Dispatch(chk.intent_response, cur)}
        : chk \in CheckTrainAmbiguity(ir0)}

(***************************************************************************)
(* The conversation memory: chat_memory.messages, a list the two add_      *)
(* calls append to.  The window k only cuts what load_memory_variables     *)
(* returns, which agent.py never calls.  A message is modelled by its      *)
(* type; its text is never read by the agent.                              *)
(***************************************************************************)
HumanMessage == "human"
AIMessage == "ai"

\* mutant: only the user message is added
SaveTurnUserOnly(messages) == Append(messages, HumanMessage)

\* chat_memory.add_user_message(user_input); chat_memory.add_ai_message(result)
SaveTurn(messages) == Append(Append(messages, HumanMessage), AIMessage)

(***************************************************************************)
(* chat(): the interactive loop.                                           *)
(***************************************************************************)
Init ==
    /\ pc = "input"
    /\ eof = FALSE
    /\ lines_read = 0
    /\ memory = <<>>
    /\ current_user_id = None
    /\ user_input = 0
    /\ oracle = NoOracle
    /\ intent_response = NoIntent
    /\ result = NoResult
    /\ requests = <<>>
    /\ output = "banner"
    /\ seen_user_id = None

turn_vars == <<user_input, oracle, intent_response, result, requests>>

\* input() returns a blank line: continue
ReadEmptyLine(max) ==
    /\ pc = "input" /\ ~eof /\ lines_read < max
    /\ lines_read' = lines_read + 1
    /\ UNCHANGED <<pc, eof, memory, current_user_id, output, seen_user_id, turn_vars>>

\* input() returns 'quit': break
ReadQuit(max) ==
    /\ pc = "input" /\ ~eof /\ lines_read < max
    /\ lines_read' = lines_read + 1
    /\ pc' = "exited"
    /\ output' = "goodbye"
    /\ UNCHANGED <<eof, memory, current_user_id, seen_user_id, turn_vars>>

\* input() returns an utterance: a turn begins
ReadUtterance(max) ==
    /\ pc = "input" /\ ~eof /\ lines_read < max
    /\ lines_read' = lines_read + 1
    /\ user_input' = lines_read + 1
    /\ oracle' = NoOracle
    /\ intent_response' = NoIntent
    /\ result' = NoResult
    /\ requests' = <<>>
    /\ pc' = "extract"
    /\ output' = "thinking"
    /\ UNCHANGED <<eof, memory, current_user_id, seen_user_id>>

\* input() raises EOFError, an Exception: control goes to the except branch
ReadEOF ==
    /\ pc = "input"
    /\ eof' = TRUE
    /\ pc' = "except"
    /\ UNCHANGED <<lines_read, memory, current_user_id, output, seen_user_id, turn_vars>>

\* except Exception: print the error line, and the while loop goes on
HandleError ==
    /\ pc = "except"
    /\ output' = "error"
    /\ pc' = "input"
    /\ UNCHANGED <<eof, lines_read, memory, current_user_id, seen_user_id, turn_vars>>

\* except KeyboardInterrupt: break
Interrupt ==
    /\ pc \in {"input", "extract", "execute"}
    /\ pc' = "exited"
    /\ output' = "goodbye"
    /\ UNCHANGED <<eof, lines_read, memory, current_user_id, seen_user_id, turn_vars>>

\* lines 535-538: _extract_intent, then the debug print of what the oracle
\* returned, which raises when that text cannot be encoded
ExtractStep(answers) ==
    /\ pc = "extract"
    /\ \E a \in answers, debug_ok \in BOOLEAN :
          LET e == ExtractIntent(a, current_user_id) IN
          /\ a.ok \/ debug_ok
          /\ oracle' = a
          /\ intent_response' = e.intent_response
          /\ current_user_id' = e.current_user_id
          /\ seen_user_id' =
                IF a.ok /\ "user_id" \in DOMAIN a.value.parameters
                        /\ a.value.parameters["user_id"] \notin {None, ""}
                THEN a.value.parameters["user_id"]
                ELSE seen_user_id
          /\ pc' = IF debug_ok THEN "execute" ELSE "except"
    /\ UNCHANGED <<eof, lines_read, memory, user_input, result, requests, output>>

\* lines 541-548: _execute_action, the print of the result (which raises when
\* the text cannot be encoded) and the two additions to the memory
ExecuteStep ==
    /\ pc = "execute"
    /\ \E out \in ExecuteAction(intent_response, current_user_id), print_ok \in BOOLEAN :
          /\ result' = out.result
          /\ requests' = out.requests
          /\ intent_response' = out.intent_response
          /\ IF print_ok
             THEN /\ output' = "response"
                  /\ memory' = SaveTurn(memory)
                  /\ pc' = "input"
             ELSE /\ pc' = "except"
                  /\ UNCHANGED <<output, memory>>
    /\ UNCHANGED <<eof, lines_read, current_user_id, user_input, oracle, seen_user_id>>

\* the steps the program takes by itself
Step ==
    \/ ReadEmptyLine(MaxLines)
    \/ ReadQuit(MaxLines)
    \/ ReadUtterance(MaxLines)
    \/ ReadEOF
    \/ HandleError
    \/ ExtractStep(OracleAnswers)
    \/ ExecuteStep

Next == Step \/ Interrupt

Spec == Init /\ [][Next]_vars

(***************************************************************************)
(* The same loop over a longer input stream and fewer oracle answers, for  *)
(* the properties of the conversation memory and of the loop's exit.       *)
(***************************************************************************)
MemStep ==
    \/ ReadEmptyLine(MaxMemLines)
    \/ ReadQuit(MaxMemLines)
    \/ ReadUtterance(MaxMemLines)
    \/ ReadEOF
    \/ HandleError
    \/ ExtractStep(MemOracleAnswers)
    \/ ExecuteStep

MemNext == MemStep \/ Interrupt

MemSpec == Init /\ [][MemNext]_vars

\* input() returns (a line or end-of-input) and every statement of the loop
\* body completes; nothing makes the user interrupt
FairSpec == Init /\ [][MemNext]_vars /\ WF_vars(MemStep)

(***************************************************************************)
(* Vocabulary of the properties.                                           *)
(***************************************************************************)
EntityOperations == {"query_ticket", "book_ticket", "cancel_ticket"}

\* a slot is empty: the key is missing, null or the empty string
Empty(params, key) == key \notin DOMAIN params \/ params[key] \in {"", None}

\* the value of a slot, "" when it is empty
Slot(params, key) == IF Empty(params, key) THEN "" ELSE params[key]

\* _execute_action has returned in the turn the state belongs to
TurnExecuted == result.kind # ""

\* what the oracle extracted in this turn, before any resolution
Extracted == oracle.value

HasLocation == ~Empty(Extracted.parameters, "from_city") \/ ~Empty(Extracted.parameters, "to_city")

\* the positions in this turn's exchanges of the requests of the given kinds
Sent(ops) == {i \in 1..Len(requests) : requests[i].op \in ops}

\* the turn began with the catalog search of the ambiguity check, and it matched n trains
FirstSearchReturned(n) ==
    /\ Len(requests) >= 1
    /\ requests[1].op = "tickets"
    /\ requests[1].status = 200
    /\ Len(requests[1].body) = n

\* "from X", "to Y", "on Z" joined by single blanks, absent parts omitted
CriteriaEcho(params) ==
    Join((IF Empty(params, "from_city") THEN <<>>
          ELSE <<<<"from", SP, params["from_city"]>>>>)
      \o (IF Empty(params, "to_city") THEN <<>>
          ELSE <<<<"to", SP, params["to_city"]>>>>)
      \o (IF Empty(params, "date") THEN <<>>
          ELSE <<<<"on", SP, params["date"]>>>>))

\* the user a command of this turn has to act for
ExpectedUserId ==
    IF ~Empty(Extracted.parameters, "user_id") THEN Extracted.parameters["user_id"]
    ELSE IF seen_user_id # None THEN seen_user_id
    ELSE "user_001"

\* an entity operation without entity id whose ambiguity check ran its catalog search
UnresolvedEntityTurn ==
    /\ TurnExecuted
    /\ oracle.ok
    /\ Extracted.intent \in EntityOperations
    /\ HasLocation
    /\ Empty(Extracted.parameters, "train_id")

(***************************************************************************)
(* C1: in a turn for query, book or cancel with an origin or destination   *)
(* and no entity id, when the catalog search returns two or more matches   *)
(* the response is the ambiguity question of the check (naming the verb of *)
(* the operation and listing the first matches), whatever clarify_question *)
(* the extractor set, and the search is the only request of the turn: no   *)
(* query, book or cancel command is sent.                                  *)
(***************************************************************************)
C1_AmbiguityQuestionWins ==
    (UnresolvedEntityTurn /\ \E n \in 2..Len(TrainIds) : FirstSearchReturned(n))
    => /\ result.kind = "multiple_trains"
       /\ result.site = "check"
       /\ result.action = ActionWord(Extracted.intent)
       /\ result.train_id = requests[1].body[1]
       /\ Len(result.options) = (IF Len(requests[1].body) < 5 THEN Len(requests[1].body) ELSE 5)
       /\ Len(requests) = 1
       /\ Sent({"query", "book", "cancel"}) = {}

C1_Witness ==
    /\ UnresolvedEntityTurn
    /\ Extracted.intent = "query_ticket"
    /\ Extracted.clarify_question = "Which user?"
    /\ FirstSearchReturned(2)
    /\ result.kind = "multiple_trains"
    /\ pc = "input"

(***************************************************************************)
(* C2: in a book turn with no entity id, an origin or destination and a    *)
(* clarify_question set by the extractor, when the catalog search returns  *)
(* exactly one match the check writes that match's id into the train_id    *)
(* slot, asks nothing, and the turn sends exactly one book command, for    *)
(* that id and the effective user; the response is the outcome of that     *)
(* command, not the clarify_question.                                      *)
(***************************************************************************)
C2_SingleMatchIsBooked ==
    (/\ UnresolvedEntityTurn
     /\ Extracted.intent = "book_ticket"
     /\ Extracted.clarify_question # ""
     /\ FirstSearchReturned(1))
    => /\ "train_id" \in DOMAIN intent_response.parameters
       /\ intent_response.parameters["train_id"] = requests[1].body[1]
       /\ Len(requests) = 2
       /\ requests[2].op = "book"
       /\ requests[2].id = requests[1].body[1]
       /\ requests[2].user_id = ExpectedUserId
       /\ result.site = "book"
       /\ result.kind \notin {"clarify", "multiple_trains", "please_specify", "no_trains_found"}

C2_Witness ==
    /\ UnresolvedEntityTurn
    /\ Extracted.intent = "book_ticket"
    /\ Extracted.clarify_question = "Which user?"
    /\ FirstSearchReturned(1)
    /\ result.kind = "booked"
    /\ result.user_id = "user_001"
    /\ pc = "input"

(***************************************************************************)
(* C3: in a turn for query, book or cancel with an origin or destination   *)
(* and no entity id, when the catalog search returns zero matches the      *)
(* response is the not-found message echoing the criteria and no query,    *)
(* book or cancel command is sent.                                         *)
(***************************************************************************)
C3_ZeroMatchesIsNotFound ==
    (UnresolvedEntityTurn /\ FirstSearchReturned(0))
    => /\ result.kind = "no_trains_found"
       /\ result.criteria = CriteriaEcho(Extracted.parameters)
       /\ Sent({"query", "book", "cancel"}) = {}

(***************************************************************************)
(* C4: when the oracle fails, _extract_intent returns to chat() (it does   *)
(* not raise) an IntentResponse with intent unknown, every slot empty, no  *)
(* missing parameters and the fixed non-empty clarify_question.            *)
(***************************************************************************)
C4_OracleFailureFallback ==
    (oracle.called /\ ~oracle.ok)
    => /\ intent_response.intent = "unknown"
       /\ \A key \in SlotNames : Empty(intent_response.parameters, key)
       /\ intent_response.missing_parameters = <<>>
       /\ intent_response.clarify_question
             = "I didn't understand your request. Could you please rephrase it?"
       /\ (~TurnExecuted => pc \in {"execute", "exited"})

C4_Witness ==
    /\ oracle.called /\ ~oracle.ok
    /\ pc = "execute"
    /\ intent_response.intent = "unknown"

(***************************************************************************)
(* C5: every IntentResponse _extract_intent returns has a parameters       *)
(* mapping with exactly the five keys train_id, user_id, from_city,        *)
(* to_city and date, none of them null.                                    *)
(***************************************************************************)
C5_FiveSlotsAlways ==
    (oracle.called /\ ~TurnExecuted)
    => /\ DOMAIN intent_response.parameters = SlotNames
       /\ \A key \in DOMAIN intent_response.parameters :
             intent_response.parameters[key] # None

(***************************************************************************)
(* C6: the turn log handed to the extractor never holds more than 20       *)
(* entries (10 user/agent pairs).                                          *)
(***************************************************************************)
C6_WindowOfTenPairs == Len(memory) <= 2 * k

(***************************************************************************)
(* C7: every book, cancel and list-user-bookings request carries the user  *)
(* id of the turn's user_id slot if that is non-empty, otherwise the most  *)
(* recent non-empty user id the oracle extracted in an earlier turn,       *)
(* otherwise "user_001".                                                   *)
(***************************************************************************)
C7_EffectiveUserId ==
    \A i \in Sent({"book", "cancel", "user_tickets"}) : requests[i].user_id = ExpectedUserId

C7_Witness ==
    /\ user_input = 2
    /\ Empty(Extracted.parameters, "user_id")
    /\ seen_user_id = "4343"
    /\ \E i \in Sent({"cancel"}) : requests[i].user_id = "4343"
    /\ result.kind = "canceled"

(***************************************************************************)
(* C8: a query-by-id, book or cancel request always carries a non-empty    *)
(* entity id; and in a query, book or cancel turn whose extracted entity   *)
(* id is empty, where no catalog search matched exactly one train and      *)
(* resolution did not itself answer (ambiguity question, not-found,        *)
(* clarify_question), the response is the "please specify" message and no  *)
(* such request is sent.                                                   *)
(***************************************************************************)
C8_NoCommandWithoutEntityId ==
    /\ \A i \in Sent({"query", "book", "cancel"}) : requests[i].id \notin {"", None}
    /\ (/\ TurnExecuted
        /\ oracle.ok
        /\ Extracted.intent \in EntityOperations
        /\ Empty(Extracted.parameters, "train_id")
        /\ result.kind \notin {"multiple_trains", "no_trains_found", "clarify"}
        /\ \A i \in Sent({"tickets"}) : ~(requests[i].status = 200 /\ Len(requests[i].body) = 1))
       => /\ result.kind = "please_specify"
          /\ Sent({"query", "book", "cancel"}) = {}

C8_Witness ==
    /\ TurnExecuted
    /\ Extracted.intent = "cancel_ticket"
    /\ HasLocation
    /\ Empty(Extracted.parameters, "train_id")
    /\ FirstSearchReturned(0)
    /\ result.kind = "please_specify"
    /\ requests = <<requests[1]>>

(***************************************************************************)
(* C9: a turn sends at most one book or cancel request; when the backend   *)
(* rejects it or the transport fails, that request is the last of the turn *)
(* and the response is the message the failure maps to.                    *)
(***************************************************************************)
C9_SingleAttempt ==
    /\ Cardinality(Sent({"book", "cancel"})) <= 1
    /\ \A i \in Sent({"book", "cancel"}) :
          requests[i].status # 200
          => /\ i = Len(requests)
             /\ result.kind \in {"train_not_found", "no_tickets_available", "invalid_request",
                                 "error_booking", "no_tickets_to_cancel", "error_canceling"}

C9_Witness ==
    /\ \E i \in Sent({"book"}) : requests[i].status = 409
    /\ result.kind = "no_tickets_available"
    /\ pc = "input"

(***************************************************************************)
(* C10: for every finite input stream the interactive loop eventually      *)
(* exits (on the quit command or at end-of-input).                         *)
(***************************************************************************)
C10_LoopExits == <>(pc = "exited")

(***************************************************************************)
(* Vocabulary of the properties of the ambiguity check.                    *)
(***************************************************************************)
\* a query, book or cancel turn whose oracle extracted an entity id
ExplicitEntityTurn ==
    /\ TurnExecuted
    /\ oracle.ok
    /\ Extracted.intent \in EntityOperations
    /\ ~Empty(Extracted.parameters, "train_id")

\* the request that carries out an operation
CommandOf(intent) ==
    CASE intent = "query_ticket" -> "query"
      [] intent = "book_ticket" -> "book"
      [] intent = "cancel_ticket" -> "cancel"
      [] OTHER -> "none"

\* the turn began with a catalog search that matched two or more trains
FirstSearchAmbiguous ==
    /\ Len(requests) >= 1
    /\ requests[1].op = "tickets"
    /\ requests[1].status = 200
    /\ Len(requests[1].body) >= 2

\* the extractor's clarify_question is one the turn may answer with: it is
\* non-empty and the turn is not a book or cancel with an origin or destination
ClarifyApplies ==
    /\ Extracted.clarify_question \notin {"", None}
    /\ ~(Extracted.intent \in {"book_ticket", "cancel_ticket"} /\ HasLocation)

(***************************************************************************)
(* C11 as stated: in a query, book or cancel turn with an extracted entity *)
(* id (and no clarify_question from the extractor), no ambiguity question  *)
(* is returned and the operation is dispatched with that id, however many  *)
(* trains match the origin, destination or date of the intent.             *)
(***************************************************************************)
C11_ExplicitIdSkipsResolver ==
    (ExplicitEntityTurn /\ Extracted.clarify_question = "")
    => /\ result.kind # "multiple_trains"
       /\ \E i \in Sent({CommandOf(Extracted.intent)}) :
             requests[i].id = Extracted.parameters["train_id"]

(***************************************************************************)
(* C11 as amended: in a query, book or cancel turn with an extracted       *)
(* entity id, the ambiguity check searches the catalog exactly when the    *)
(* intent has an origin or destination; it never replaces the extracted id *)
(* and never reports not-found; it returns the ambiguity question exactly  *)
(* when that search matches two or more trains, and then nothing is        *)
(* dispatched; otherwise the extractor's clarify_question is returned when *)
(* it applies, and in every other case the operation is dispatched once    *)
(* with the extracted id.                                                  *)
(***************************************************************************)
C11_ExplicitIdIsDoubleChecked ==
    ExplicitEntityTurn
    => /\ (Sent({"tickets"}) # {}) <=> HasLocation
       /\ Cardinality(Sent({"tickets"})) <= 1
       /\ intent_response.parameters["train_id"] = Extracted.parameters["train_id"]
       /\ result.kind \notin {"no_trains_found", "please_specify"}
       /\ (result.kind = "multiple_trains") <=> FirstSearchAmbiguous
       /\ (result.kind = "clarify") <=> (~FirstSearchAmbiguous /\ ClarifyApplies)
       /\ result.kind \in {"multiple_trains", "clarify"}
             => Sent({"query", "book", "cancel"}) = {}
       /\ result.kind \notin {"multiple_trains", "clarify"}
             => /\ Sent({"query", "book", "cancel"}) = {Len(requests)}
                /\ requests[Len(requests)].op = CommandOf(Extracted.intent)
                /\ requests[Len(requests)].id = Extracted.parameters["train_id"]

C11_Witness ==
    /\ ExplicitEntityTurn
    /\ Extracted.intent = "cancel_ticket"
    /\ Extracted.parameters["train_id"] = "G100"
    /\ HasLocation
    /\ FirstSearchAmbiguous
    /\ result.kind = "multiple_trains"
    /\ requests = <<requests[1]>>
    /\ pc = "input"

(***************************************************************************)
(* C12: when the catalog search of the ambiguity check fails (the backend  *)
(* answers with a status other than 200, or the request raises), the turn  *)
(* does not answer not-found, and when the extractor set a non-empty       *)
(* clarify_question that question is the response.                         *)
(***************************************************************************)
\* the turn began with the catalog search of the ambiguity check, and it failed
FirstSearchFailed ==
    /\ Len(requests) >= 1
    /\ requests[1].op = "tickets"
    /\ requests[1].status # 200

C12_FailedSearchFallsThrough ==
    (/\ TurnExecuted
     /\ oracle.ok
     /\ Extracted.intent \in EntityOperations
     /\ HasLocation
     /\ FirstSearchFailed)
    => /\ result.kind # "no_trains_found"
       /\ Extracted.clarify_question \notin {"", None}
             => /\ result.kind = "clarify"
                /\ result.text = Extracted.clarify_question

(***************************************************************************)
(* C13: the extractor's clarify_question is the response only in a turn in *)
(* which the ambiguity check did not fill in the entity id from a single   *)
(* catalog match and which is not a book or cancel with an origin or       *)
(* destination; whenever the check has filled in the entity id (query      *)
(* included), the operation is dispatched with that id and the             *)
(* clarify_question is not the response.                                   *)
(***************************************************************************)
\* the ambiguity check wrote the id of the single match into the train_id slot
AutoFilled ==
    /\ oracle.ok
    /\ Extracted.intent \in EntityOperations
    /\ Empty(Extracted.parameters, "train_id")
    /\ ~Empty(intent_response.parameters, "train_id")

C13_ClarifyOnlyWhenUnresolved ==
    TurnExecuted
    => /\ result.kind = "clarify"
             => /\ ~AutoFilled
                /\ ~(Extracted.intent \in {"book_ticket", "cancel_ticket"} /\ HasLocation)
       /\ AutoFilled
             => /\ result.kind # "clarify"
                /\ \E i \in Sent({CommandOf(Extracted.intent)}) :
                      requests[i].id = intent_response.parameters["train_id"]

(***************************************************************************)
(* C14 as stated: the turn log and current_user_id change only in the step *)
(* that ends a turn, after _execute_action has returned the response.      *)
(***************************************************************************)
C14_StateChangesAtEndOfTurn ==
    [][(memory' # memory \/ current_user_id' # current_user_id)
         => (pc = "execute" /\ pc' = "input" /\ result'.kind # "")]_vars

(***************************************************************************)
(* C14 as amended: the turn log changes only at the end of a turn, after   *)
(* the response has been computed and printed, by exactly one user entry   *)
(* followed by one agent entry, and a turn that fails leaves it unchanged. *)
(* current_user_id is not staged: it changes only while the intent is      *)
(* extracted, to the non-empty user_id the oracle returned, before any     *)
(* response exists and whether or not the turn later fails.                *)
(***************************************************************************)
C14_LogAtEndUserIdAtExtraction ==
    [][/\ memory' # memory
            => /\ pc = "execute" /\ pc' = "input"
               /\ result'.kind # ""
               /\ output' = "response"
               /\ memory' = memory \o <<"human", "ai">>
               /\ current_user_id' = current_user_id
       /\ current_user_id' # current_user_id
            => /\ pc = "extract"
               /\ result'.kind = ""
               /\ oracle'.ok
               /\ ~Empty(oracle'.value.parameters, "user_id")
               /\ current_user_id' = oracle'.value.parameters["user_id"]
       /\ pc' = "except" => memory' = memory]_vars

\* the first turn failed after the extraction: the log is as it was, the user id is new
C14_Witness ==
    /\ pc = "except"
    /\ user_input = 1
    /\ oracle.ok
    /\ ~TurnExecuted
    /\ memory = <<>>
    /\ current_user_id = "4343"

(***************************************************************************)
(* C15: the ambiguity check is idempotent over an unchanged catalog.  The  *)
(* turn has applied it once: intent_response is the record as the check    *)
(* left it, and the check returned its question (the response built at the *)
(* check) or nothing.  Applied again to that record, with the backend      *)
(* giving the same answer to the same search, it returns the same question *)
(* or nothing again and leaves the record, train_id included, as it is.    *)
(***************************************************************************)
\* the question the check of this turn returned
FirstQuestion == IF result.site = "check" THEN result ELSE NoQuestion

\* a second application meets the catalog of the first: it exchanges what the
\* first exchanged
SameCatalog(again) ==
    /\ Len(again.requests) <= Len(requests)
    /\ again.requests = SubSeq(requests, 1, Len(again.requests))

C15_CheckIsIdempotent ==
    (TurnExecuted /\ oracle.ok)
    => \A again \in CheckTrainAmbiguity(intent_response) :
          SameCatalog(again)
          => /\ again.question = FirstQuestion
             /\ again.intent_response = intent_response

C15_Witness ==
    /\ TurnExecuted
    /\ AutoFilled
    /\ Extracted.intent = "book_ticket"
    /\ FirstSearchReturned(1)
    /\ intent_response.parameters["train_id"] = "D200"
    /\ \E again \in CheckTrainAmbiguity(intent_response) :
          /\ again.requests = <<requests[1]>>
          /\ again.question = NoQuestion
          /\ again.intent_response = intent_response

====
